---- MODULE Spec2Model ----
(***************************************************************************)
(* Model of muzzle: the derivation library (src/src/lib.rs) and the        *)
(* command-line driver (src/src/main.rs).                                  *)
(*                                                                         *)
(* f64 values are modelled as NaN, signed infinities, signed zeros and     *)
(* signed finite magnitudes.  A finite magnitude is the exact real         *)
(* (n/d)^(1/r), n/d in lowest terms, r a power of two, so that the         *)
(* products, quotients, squares and square roots of the code are computed  *)
(* without rounding.  The special values follow IEEE 754.  Magnitudes stay *)
(* far from the f64 range limits, except in the parser, which maps         *)
(* out-of-range decimal text to infinity or zero as the code does.         *)
(*                                                                         *)
(* Text (a Rust String) is a sequence of one-character strings.            *)
(***************************************************************************)
EXTENDS Integers, Sequences, FiniteSets, TLC

\* ------------------------------------------------------------------------
\* Integer helpers
\* ------------------------------------------------------------------------

RECURSIVE GCD(_, _)
GCD(a, b) == IF b = 0 THEN a ELSE GCD(b, a % b)

RECURSIVE Pow10(_)
Pow10(k) == IF k = 0 THEN 1 ELSE 10 * Pow10(k - 1)

RECURSIVE NumDigits(_)
NumDigits(n) == IF n < 10 THEN 1 ELSE 1 + NumDigits(n \div 10)

RECURSIVE IsqrtBetween(_, _, _)
IsqrtBetween(n, lo, hi) ==
  IF lo >= hi THEN lo
  ELSE LET mid == (lo + hi + 1) \div 2
       IN IF mid * mid <= n THEN IsqrtBetween(n, mid, hi)
          ELSE IsqrtBetween(n, lo, mid - 1)

\* floor(sqrt(n)); 46340 is the largest root whose square is a 32-bit integer
Isqrt(n) == IsqrtBetween(n, 0, 46340)

IsSquare(n) == Isqrt(n) * Isqrt(n) = n

\* ------------------------------------------------------------------------
\* f64 values
\* ------------------------------------------------------------------------

NaN == [k |-> "nan", s |-> 1, n |-> 0, d |-> 1, r |-> 1]

Inf(sg) == [k |-> "inf", s |-> sg, n |-> 0, d |-> 1, r |-> 1]

Zero(sg) == [k |-> "zero", s |-> sg, n |-> 0, d |-> 1, r |-> 1]

\* (n/d)^(1/r) in normal form: lowest terms, and as small a root as possible.
RECURSIVE Mag(_, _, _, _)
Mag(sg, n, d, r) ==
  LET g == GCD(n, d)
      nn == n \div g
      dd == d \div g
  IN IF r > 1 /\ IsSquare(nn) /\ IsSquare(dd)
     THEN Mag(sg, Isqrt(nn), Isqrt(dd), r \div 2)
     ELSE [k |-> "fin", s |-> sg, n |-> nn, d |-> dd, r |-> r]

\* The f64 nearest the decimal literal sg * n / d.
Lit(sg, n, d) == Mag(sg, n, d, 1)

IsFinite(x) == x.k \in {"fin", "zero"}

\* (n/d)^k of the rational under the root, to bring two roots together.
RECURSIVE RaiseN(_, _)
RaiseN(n, k) == IF k = 1 THEN n ELSE RaiseN(n, k - 1) * n

\* x * y
FMul(x, y) ==
  LET sg == x.s * y.s
  IN CASE x.k = "nan" \/ y.k = "nan" -> NaN
       [] x.k = "inf" -> IF y.k = "zero" THEN NaN ELSE Inf(sg)
       [] y.k = "inf" -> IF x.k = "zero" THEN NaN ELSE Inf(sg)
       [] x.k = "zero" \/ y.k = "zero" -> Zero(sg)
       [] OTHER ->
            LET R  == IF x.r > y.r THEN x.r ELSE y.r
                xn == RaiseN(x.n, R \div x.r)
                xd == RaiseN(x.d, R \div x.r)
                yn == RaiseN(y.n, R \div y.r)
                yd == RaiseN(y.d, R \div y.r)
                g1 == GCD(xn, yd)
                g2 == GCD(yn, xd)
            IN Mag(sg, (xn \div g1) * (yn \div g2),
                       (xd \div g2) * (yd \div g1), R)

\* x / y
FDiv(x, y) ==
  LET sg == x.s * y.s
  IN CASE x.k = "nan" \/ y.k = "nan" -> NaN
       [] x.k = "inf" -> IF y.k = "inf" THEN NaN ELSE Inf(sg)
       [] y.k = "inf" -> Zero(sg)
       [] y.k = "zero" -> IF x.k = "zero" THEN NaN ELSE Inf(sg)
       [] x.k = "zero" -> Zero(sg)
       [] OTHER -> FMul(x, [y EXCEPT !.n = y.d, !.d = y.n])

\* f64::powi(2)
FPowi2(x) ==
  CASE x.k = "nan" -> NaN
    [] x.k = "inf" -> Inf(1)
    [] x.k = "zero" -> Zero(1)
    [] OTHER -> IF x.r > 1 THEN Mag(1, x.n, x.d, x.r \div 2)
                ELSE Mag(1, x.n * x.n, x.d * x.d, 1)

\* f64::powf(0.5): pow(-inf, 0.5) = +inf and pow(-0, 0.5) = +0
FPowHalf(x) ==
  CASE x.k = "nan" -> NaN
    [] x.k = "inf" -> Inf(1)
    [] x.k = "zero" -> Zero(1)
    [] OTHER -> IF x.s < 0 THEN NaN ELSE Mag(1, x.n, x.d, 2 * x.r)

\* ------------------------------------------------------------------------
\* Constants (lib.rs)
\* ------------------------------------------------------------------------

GEE_FPS == Lit(1, 32174, 1000)

GRAMS_IN_KILO == Lit(1, 1000, 1)

GRAINS_IN_POUND == Lit(1, 7000, 1)

Two == Lit(1, 2, 1)

Units == {"METRIC", "IMPERIAL"}

\* Option<T>: None is the empty sequence, Some(v) the sequence <<v>>.
None == << >>

Some(v) == << v >>

IsSome(o) == Len(o) = 1

Unwrap(o) == o[1]

\* Result<T, String>
Ok(v) == [tag |-> "Ok", val |-> v]

Err(msg) == [tag |-> "Err", val |-> msg]

\* ------------------------------------------------------------------------
\* str::parse::<f64>
\* ------------------------------------------------------------------------

DigitChars == << "0", "1", "2", "3", "4", "5", "6", "7", "8", "9" >>

IsDigit(c) == \E i \in 1..10 : DigitChars[i] = c

DigitVal(c) == (CHOOSE i \in 1..10 : DigitChars[i] = c) - 1

\* Number of digits at the front of s.
RECURSIVE LeadingDigits(_)
LeadingDigits(s) ==
  IF s /= << >> /\ IsDigit(Head(s)) THEN 1 + LeadingDigits(Tail(s)) ELSE 0

RECURSIVE DigitsVal(_)
DigitsVal(s) ==
  IF s = << >> THEN 0
  ELSE 10 * DigitsVal(SubSeq(s, 1, Len(s) - 1)) + DigitVal(s[Len(s)])

Drop(s, k) == SubSeq(s, k + 1, Len(s))

LowerChar(c) ==
  CASE c = "I" -> "i" [] c = "N" -> "n" [] c = "F" -> "f" [] c = "T" -> "t"
    [] c = "Y" -> "y" [] c = "A" -> "a" [] OTHER -> c

Lower(s) == [i \in 1..Len(s) |-> LowerChar(s[i])]

\* The special values the parser accepts after the sign, in any case.
ParseInfNan(s, sg) ==
  LET l == Lower(s)
  IN CASE l = << "n", "a", "n" >> -> Some(NaN)
       [] l = << "i", "n", "f" >> -> Some(Inf(sg))
       [] l = << "i", "n", "f", "i", "n", "i", "t", "y" >> -> Some(Inf(sg))
       [] OTHER -> None

\* The f64 nearest sg * D * 10^x, D having been read from the text:
\* beyond the f64 range it is an infinity, below it a zero.
Decimal(sg, D, x) ==
  IF D = 0 THEN Some(Zero(sg))
  ELSE IF NumDigits(D) + x > 309 THEN Some(Inf(sg))
  ELSE IF NumDigits(D) + x < 0 - 323 THEN Some(Zero(sg))
  ELSE IF x >= 0 THEN Some(Lit(sg, D * Pow10(x), 1))
  ELSE Some(Lit(sg, D, Pow10(0 - x)))

\* The digits of an exponent, to the end of the text; at least one.
ParseExpDigits(sg, D, nf, eneg, ds) ==
  IF ds = << >> \/ LeadingDigits(ds) /= Len(ds) THEN None
  ELSE Decimal(sg, D, (IF eneg THEN 0 - DigitsVal(ds) ELSE DigitsVal(ds)) - nf)

\* What follows the e: an optional sign, then the digits.
ParseExponent(sg, D, nf, t) ==
  IF t /= << >> /\ Head(t) \in {"+", "-"}
  THEN ParseExpDigits(sg, D, nf, Head(t) = "-", Tail(t))
  ELSE ParseExpDigits(sg, D, nf, FALSE, t)

\* What follows the mantissa digits ds, nf of them after the point: the end
\* of the text or an exponent.  A mantissa has at least one digit.
ParseAfterMantissa(sg, ds, nf, t) ==
  IF ds = << >> THEN None
  ELSE IF t = << >> THEN Decimal(sg, DigitsVal(ds), 0 - nf)
  ELSE IF Head(t) \in {"e", "E"}
  THEN ParseExponent(sg, DigitsVal(ds), nf, Tail(t))
  ELSE None

\* What follows the decimal point: the fraction digits.
ParseFraction(sg, int, t) ==
  ParseAfterMantissa(sg, int \o SubSeq(t, 1, LeadingDigits(t)),
                     LeadingDigits(t), Drop(t, LeadingDigits(t)))

\* What follows the ni integer digits of s: an optional point and fraction.
ParseAfterInt(sg, s, ni) ==
  IF ni < Len(s) /\ s[ni + 1] = "."
  THEN ParseFraction(sg, SubSeq(s, 1, ni), Drop(s, ni + 1))
  ELSE ParseAfterMantissa(sg, SubSeq(s, 1, ni), 0, Drop(s, ni))

\* digits [. digits] [e [sign] digits], at least one digit in the mantissa
ParseNumber(s, sg) == ParseAfterInt(sg, s, LeadingDigits(s))

\* st.parse::<f64>(): Some(value), or None for Err(ParseFloatError)
ParseF64(st) ==
  IF st = << >> THEN None
  ELSE LET c    == Head(st)
           sg   == IF c = "-" THEN 0 - 1 ELSE 1
           rest == IF c \in {"+", "-"} THEN Tail(st) ELSE st
       IN IF rest = << >> THEN None
          ELSE LET num == ParseNumber(rest, sg)
               IN IF IsSome(num) THEN num ELSE ParseInfNan(rest, sg)

\* ------------------------------------------------------------------------
\* lib.rs
\* ------------------------------------------------------------------------

\* The grave accent character, which a TLA+ string cannot hold.
Backtick == "U+0060"

ParseErrPrefix ==
  << "F", "a", "i", "l", "e", "d", " ", "t", "o", " ", "p", "a", "r", "s",
     "e", " ", Backtick >>

ParseErrSuffix ==
  << Backtick, " ", "a", "s", " ", "i", "n", "p", "u", "t", " ", "p", "a", "r",
     "a", "m", "e", "t", "e", "r", "!" >>

\* format!: the prefix, the text as given, the suffix
ParseErrMsg(st) == ParseErrPrefix \o st \o ParseErrSuffix

IncorrectParametersMsg ==
  << "I", "n", "c", "o", "r", "r", "e", "c", "t", " ", "p", "a", "r", "a",
     "m", "e", "t", "e", "r", "s", " ", "s", "e", "t", ".", " ", "A", "t",
     " ", "l", "e", "a", "s", "t", " ", "t", "w", "o", " ", "o", "u", "t",
     " ", "o", "f", " ", "t", "h", "r", "e", "e", " ", "p", "a", "r", "a",
     "m", "e", "t", "e", "r", "s", " ", "m", "u", "s", "t", " ", "b", "e",
     " ", "g", "i", "v", "e", "n", " ", "t", "o", " ", "d", "e", "r", "i",
     "v", "e", " ", "t", "h", "e", " ", "t", "h", "i", "r", "d", ".", "\n",
     "P", "l", "e", "a", "s", "e", " ", "c", "h", "e", "c", "k", " ", "i",
     "n", "p", "u", "t", "." >>

\* get_float: Ok(None), Ok(Some(n)) or Err(message)
get_float(param) ==
  IF IsSome(param)
  THEN LET st == Unwrap(param)
           n  == ParseF64(st)
       IN IF IsSome(n) THEN Ok(n) ELSE Err(ParseErrMsg(st))
  ELSE Ok(None)

\* derive_mass without the gravitational correction in Imperial units.
derive_mass_NoGee(speed, energy, units) ==
  IF units = "METRIC"
  THEN FMul(FDiv(FMul(Two, energy), FPowi2(speed)), GRAMS_IN_KILO)
  ELSE FMul(FDiv(FMul(Two, energy), FPowi2(speed)), GRAINS_IN_POUND)

derive_mass(speed, energy, units) ==
  IF units = "METRIC"
  THEN FMul(FDiv(FMul(Two, energy), FPowi2(speed)), GRAMS_IN_KILO)
  ELSE FMul(FDiv(FMul(FMul(Two, GEE_FPS), energy), FPowi2(speed)),
            GRAINS_IN_POUND)

\* derive_speed without the factor two.
derive_speed_NoTwo(mass, energy, units) ==
  LET speed_squared ==
        IF units = "METRIC"
        THEN FDiv(energy, FDiv(mass, GRAMS_IN_KILO))
        ELSE FDiv(FMul(GEE_FPS, energy), FDiv(mass, GRAINS_IN_POUND))
  IN FPowHalf(speed_squared)

derive_speed(mass, energy, units) ==
  LET speed_squared ==
        IF units = "METRIC"
        THEN FDiv(FMul(Two, energy), FDiv(mass, GRAMS_IN_KILO))
        ELSE FDiv(FMul(FMul(Two, GEE_FPS), energy),
                  FDiv(mass, GRAINS_IN_POUND))
  IN FPowHalf(speed_squared)

\* derive_energy dividing by g, not by 2g, in Imperial units.
derive_energy_HalfGee(mass, speed, units) ==
  IF units = "METRIC"
  THEN FDiv(FMul(FDiv(mass, GRAMS_IN_KILO), FPowi2(speed)), Two)
  ELSE FDiv(FMul(FDiv(mass, GRAINS_IN_POUND), FPowi2(speed)), GEE_FPS)

derive_energy(mass, speed, units) ==
  IF units = "METRIC"
  THEN FDiv(FMul(FDiv(mass, GRAMS_IN_KILO), FPowi2(speed)), Two)
  ELSE FDiv(FMul(FDiv(mass, GRAINS_IN_POUND), FPowi2(speed)),
            FMul(Two, GEE_FPS))

Params(u, m, s, e, b) ==
  [units |-> u, mass |-> m, speed |-> s, energy |-> e, bogus |-> b]

\* The match of run with the arguments of derive_energy exchanged.
Select_SwapArgs(units, m, s, e) ==
  CASE IsSome(m) /\ IsSome(s) /\ ~IsSome(e) ->
         Ok(Params(units, Unwrap(m), Unwrap(s),
                   derive_energy(Unwrap(s), Unwrap(m), units), FALSE))
    [] IsSome(m) /\ ~IsSome(s) /\ IsSome(e) ->
         Ok(Params(units, Unwrap(m),
                   derive_speed(Unwrap(m), Unwrap(e), units), Unwrap(e),
                   FALSE))
    [] ~IsSome(m) /\ IsSome(s) /\ IsSome(e) ->
         Ok(Params(units, derive_mass(Unwrap(s), Unwrap(e), units),
                   Unwrap(s), Unwrap(e), FALSE))
    [] IsSome(m) /\ IsSome(s) /\ IsSome(e) ->
         Ok(Params(units, Unwrap(m), Unwrap(s), Unwrap(e), TRUE))
    [] OTHER -> Err(IncorrectParametersMsg)

\* The match of run where three Imperial inputs fall into the first arm and
\* have their energy derived again.
Select_UnitsSelect(units, m, s, e) ==
  CASE IsSome(m) /\ IsSome(s) /\ (~IsSome(e) \/ units = "IMPERIAL") ->
         Ok(Params(units, Unwrap(m), Unwrap(s),
                   derive_energy(Unwrap(m), Unwrap(s), units), FALSE))
    [] IsSome(m) /\ ~IsSome(s) /\ IsSome(e) ->
         Ok(Params(units, Unwrap(m),
                   derive_speed(Unwrap(m), Unwrap(e), units), Unwrap(e),
                   FALSE))
    [] ~IsSome(m) /\ IsSome(s) /\ IsSome(e) ->
         Ok(Params(units, derive_mass(Unwrap(s), Unwrap(e), units),
                   Unwrap(s), Unwrap(e), FALSE))
    [] IsSome(m) /\ IsSome(s) /\ IsSome(e) ->
         Ok(Params(units, Unwrap(m), Unwrap(s), Unwrap(e), TRUE))
    [] OTHER -> Err(IncorrectParametersMsg)

\* The match of run on the three parsed options.
Select(units, m, s, e) ==
  CASE IsSome(m) /\ IsSome(s) /\ ~IsSome(e) ->
         Ok(Params(units, Unwrap(m), Unwrap(s),
                   derive_energy(Unwrap(m), Unwrap(s), units), FALSE))
    [] IsSome(m) /\ ~IsSome(s) /\ IsSome(e) ->
         Ok(Params(units, Unwrap(m),
                   derive_speed(Unwrap(m), Unwrap(e), units), Unwrap(e),
                   FALSE))
    [] ~IsSome(m) /\ IsSome(s) /\ IsSome(e) ->
         Ok(Params(units, derive_mass(Unwrap(s), Unwrap(e), units),
                   Unwrap(s), Unwrap(e), FALSE))
    [] IsSome(m) /\ IsSome(s) /\ IsSome(e) ->
         Ok(Params(units, Unwrap(m), Unwrap(s), Unwrap(e), TRUE))
    [] OTHER -> Err(IncorrectParametersMsg)

\* run counting the inputs before it parses them.
run_CountFirst(config) ==
  LET m == get_float(config.mass)
      s == get_float(config.speed)
      e == get_float(config.energy)
  IN IF Len(config.mass) + Len(config.speed) + Len(config.energy) < 2
     THEN Err(IncorrectParametersMsg)
     ELSE IF m.tag = "Err" THEN m
     ELSE IF s.tag = "Err" THEN s
     ELSE IF e.tag = "Err" THEN e
     ELSE Select(config.units, m.val, s.val, e.val)

\* run reporting the parse errors in the order energy, speed, mass.
run_EnergyFirst(config) ==
  LET m == get_float(config.mass)
      s == get_float(config.speed)
      e == get_float(config.energy)
  IN IF e.tag = "Err" THEN e
     ELSE IF s.tag = "Err" THEN s
     ELSE IF m.tag = "Err" THEN m
     ELSE Select(config.units, m.val, s.val, e.val)

\* run: the three get_float calls in order, each returning early on Err.
run(config) ==
  LET m == get_float(config.mass)
      s == get_float(config.speed)
      e == get_float(config.energy)
  IN IF m.tag = "Err" THEN m
     ELSE IF s.tag = "Err" THEN s
     ELSE IF e.tag = "Err" THEN e
     ELSE Select(config.units, m.val, s.val, e.val)

\* ------------------------------------------------------------------------
\* main.rs
\* ------------------------------------------------------------------------

\* {:.3} of a finite rational value: the number of thousandths shown, the
\* exact value rounded to nearest, ties to even.
Format3(x) ==
  IF x.k = "zero" THEN 0
  ELSE LET ip   == x.n \div x.d
           r0   == x.n % x.d
           d1   == (r0 * 10) \div x.d
           r1   == (r0 * 10) % x.d
           d2   == (r1 * 10) \div x.d
           r2   == (r1 * 10) % x.d
           d3   == (r2 * 10) \div x.d
           r3   == (r2 * 10) % x.d
           t    == ip * 1000 + d1 * 100 + d2 * 10 + d3
           up   == 2 * r3 > x.d \/ (2 * r3 = x.d /\ t % 2 = 1)
       IN x.s * (IF up THEN t + 1 ELSE t)

UnitNames(units) ==
  IF units = "METRIC" THEN << "grams", "m/s", "Joules" >>
  ELSE << "grains", "FPS", "FPE" >>

\* Texts the user may type after any of --mass, --speed and --energy.
TextList ==
  << << "a", "b", "c" >>,
     << "i", "n", "f" >>,
     << "0" >>,
     << "N", "a", "N" >>,
     << "x", "y", "z" >>,
     << "1", "e", "4", "0", "0" >>,
     << "+", ".", "5", "e", "1" >>,
     << "-", "0" >>,
     << >>,
     << "I", "n", "f", "i", "n", "i", "t", "y" >>,
     << "-", "2", ".", "5" >> >>

NumTexts == 9

Texts ==
  {TextList[i] : i \in {j \in 1..Len(TextList) : j <= NumTexts}}

\* Plausible quantities for each field.
MassTexts == { << "1", "0" >>, << "1", "5", "0" >> }

SpeedTexts ==
  { << "8", "0", "0" >>, << "2", "7", "0", "0" >>, << "-", "8", "0", "0" >> }

EnergyTexts == { << "3", "2", "0", "0" >> }

Opt(S) == {None} \cup {Some(t) : t \in S}

\* The command line as getopts sees it: bad when opts.parse fails (an
\* unknown option, a missing argument, an option given twice).
ArgLines ==
  [bad : BOOLEAN, h : BOOLEAN, i : BOOLEAN,
   m : Opt(Texts \cup MassTexts), s : Opt(Texts \cup SpeedTexts),
   e : Opt(Texts \cup EnergyTexts)]

VARIABLES pc, args, config, result, stdout, stderr, exit_code

vars == << pc, args, config, result, stdout, stderr, exit_code >>

Running == 0 - 1

Init ==
  /\ pc = "start"
  /\ args \in ArgLines
  /\ config = None
  /\ result = None
  /\ stdout = << >>
  /\ stderr = << >>
  /\ exit_code = Running

\* opts.parse fails: message on the error stream, exit(1)
OptsParseFail ==
  /\ pc = "start"
  /\ args.bad
  /\ stderr' = Append(stderr, "Failed to parse parameters with")
  /\ exit_code' = 1
  /\ pc' = "exited"
  /\ UNCHANGED << args, config, result, stdout >>

OptsParseOk ==
  /\ pc = "start"
  /\ ~args.bad
  /\ pc' = "matched"
  /\ UNCHANGED << args, config, result, stdout, stderr, exit_code >>

\* -h: usage on the output stream, exit(0)
DisplayHelp ==
  /\ pc = "matched"
  /\ args.h
  /\ stdout' = Append(stdout, [kind |-> "usage"])
  /\ exit_code' = 0
  /\ pc' = "exited"
  /\ UNCHANGED << args, config, result, stderr >>

\* The Config built from the matches, and the call of run.
CallRun ==
  /\ pc = "matched"
  /\ ~args.h
  /\ LET c == [units |-> IF args.i THEN "IMPERIAL" ELSE "METRIC",
               mass |-> args.m, speed |-> args.s, energy |-> args.e]
     IN /\ config' = Some(c)
        /\ result' = Some(run(c))
  /\ pc' = "ran"
  /\ UNCHANGED << args, stdout, stderr, exit_code >>

\* RunFailed exiting with the success code.
RunFailed_ExitZero ==
  /\ pc = "ran"
  /\ Unwrap(result).tag = "Err"
  /\ stderr' = Append(stderr, "Failed to calculate parameters with")
  /\ exit_code' = 0
  /\ pc' = "exited"
  /\ UNCHANGED << args, config, result, stdout >>

\* run returned Err: message on the error stream, exit(1)
RunFailed ==
  /\ pc = "ran"
  /\ Unwrap(result).tag = "Err"
  /\ stderr' = Append(stderr, "Failed to calculate parameters with")
  /\ exit_code' = 1
  /\ pc' = "exited"
  /\ UNCHANGED << args, config, result, stdout >>

\* run returned Ok: the warning when bogus, then the block, each value
\* shown with three decimals and its unit; exit(0)
PrintParams ==
  /\ pc = "ran"
  /\ Unwrap(result).tag = "Ok"
  /\ LET p     == Unwrap(result).val
         names == UnitNames(p.units)
         block == [kind |-> "params",
                   mass |-> << p.mass, names[1] >>,
                   speed |-> << p.speed, names[2] >>,
                   energy |-> << p.energy, names[3] >>]
     IN stdout' = (IF p.bogus THEN Append(stdout, [kind |-> "warning"])
                   ELSE stdout) \o << block >>
  /\ exit_code' = 0
  /\ pc' = "exited"
  /\ UNCHANGED << args, config, result, stderr >>

Next ==
  \/ OptsParseFail
  \/ OptsParseOk
  \/ DisplayHelp
  \/ CallRun
  \/ RunFailed
  \/ PrintParams

Spec == Init /\ [][Next]_vars

\* ------------------------------------------------------------------------
\* Vocabulary of the properties
\* ------------------------------------------------------------------------

HasRun == IsSome(result)

Cfg == Unwrap(config)

Res == Unwrap(result)

NumPresent(c) ==
  (IF IsSome(c.mass) THEN 1 ELSE 0) + (IF IsSome(c.speed) THEN 1 ELSE 0)
    + (IF IsSome(c.energy) THEN 1 ELSE 0)

\* A present text that str::parse::<f64> rejects.
NonNumeric(o) == IsSome(o) /\ ~IsSome(ParseF64(Unwrap(o)))

AllParse(c) ==
  ~NonNumeric(c.mass) /\ ~NonNumeric(c.speed) /\ ~NonNumeric(c.energy)

\* The number a present, parseable text denotes.
Parsed(o) == Unwrap(ParseF64(Unwrap(o)))

\* A present text that parses to an infinity or to NaN.
NonFinite(o) ==
  IsSome(o) /\ IsSome(ParseF64(Unwrap(o))) /\ ~IsFinite(Parsed(o))

Contains(msg, t) ==
  \E i \in 0..(Len(msg) - Len(t)) : SubSeq(msg, i + 1, i + Len(t)) = t

IsParseError(r) ==
  /\ r.tag = "Err"
  /\ Len(r.val) >= Len(ParseErrPrefix) + Len(ParseErrSuffix)
  /\ SubSeq(r.val, 1, Len(ParseErrPrefix)) = ParseErrPrefix
  /\ SubSeq(r.val, Len(r.val) - Len(ParseErrSuffix) + 1, Len(r.val))
       = ParseErrSuffix

IsInsufficient(r) == r.tag = "Err" /\ r.val = IncorrectParametersMsg

Positive(x) == x.k = "fin" /\ x.s = 1

IsZero(x) == x.k = "zero"

\* Equal within the tolerance of the arithmetic: the model computes without
\* rounding, so two finite results are close when they are the same number.
Close(x, y) ==
  /\ IsFinite(x)
  /\ IsFinite(y)
  /\ \/ IsZero(x) /\ IsZero(y)
     \/ x = y

Txt10 == << "1", "0" >>

Txt150 == << "1", "5", "0" >>

Txt800 == << "8", "0", "0" >>

Txt2700 == << "2", "7", "0", "0" >>

Txt3200 == << "3", "2", "0", "0" >>

TxtAbc == << "a", "b", "c" >>

TxtXyz == << "x", "y", "z" >>

TxtFive == << "+", ".", "5", "e", "1" >>

\* ------------------------------------------------------------------------
\* Properties
\* ------------------------------------------------------------------------

\* C1: with exactly two of mass, speed and energy present, both parseable,
\* run returns Ok with bogus = false, the units of the config, the two
\* supplied fields as parsed, and the absent field derived from them:
\* energy from mass and speed, speed from mass and energy, mass from speed
\* and energy.
C1_TwoInputsDeriveThird ==
  (HasRun /\ NumPresent(Cfg) = 2 /\ AllParse(Cfg)) =>
    /\ Res.tag = "Ok"
    /\ Res.val.bogus = FALSE
    /\ Res.val.units = Cfg.units
    /\ IsSome(Cfg.mass) => Res.val.mass = Parsed(Cfg.mass)
    /\ IsSome(Cfg.speed) => Res.val.speed = Parsed(Cfg.speed)
    /\ IsSome(Cfg.energy) => Res.val.energy = Parsed(Cfg.energy)
    /\ ~IsSome(Cfg.energy) =>
         Res.val.energy
           = derive_energy(Parsed(Cfg.mass), Parsed(Cfg.speed), Cfg.units)
    /\ ~IsSome(Cfg.speed) =>
         Res.val.speed
           = derive_speed(Parsed(Cfg.mass), Parsed(Cfg.energy), Cfg.units)
    /\ ~IsSome(Cfg.mass) =>
         Res.val.mass
           = derive_mass(Parsed(Cfg.speed), Parsed(Cfg.energy), Cfg.units)

\* run has derived a speed from a mass and an energy, in grains and FPE.
C1_Witness ==
  /\ HasRun
  /\ Cfg.units = "IMPERIAL"
  /\ Cfg.mass = Some(Txt150)
  /\ Cfg.speed = None
  /\ Cfg.energy = Some(Txt3200)
  /\ Res.tag = "Ok"
  /\ Res.val.bogus = FALSE
  /\ Positive(Res.val.speed)

\* C2: with all three inputs present and parseable, run returns Ok with
\* bogus = true and mass, speed and energy as parsed, nothing derived, in
\* both unit systems, whether or not the three values agree.
C2_AllThreeEchoed ==
  (HasRun /\ NumPresent(Cfg) = 3 /\ AllParse(Cfg)) =>
    /\ Res.tag = "Ok"
    /\ Res.val.bogus = TRUE
    /\ Res.val.units = Cfg.units
    /\ Res.val.mass = Parsed(Cfg.mass)
    /\ Res.val.speed = Parsed(Cfg.speed)
    /\ Res.val.energy = Parsed(Cfg.energy)

\* Three inputs that contradict each other (10 g at 800 m/s is 3200 J, not
\* 5 J) came back as given.
C2_Witness ==
  /\ HasRun
  /\ Cfg.units = "METRIC"
  /\ Cfg.mass = Some(Txt10)
  /\ Cfg.speed = Some(Txt800)
  /\ Cfg.energy = Some(TxtFive)
  /\ Res.tag = "Ok"
  /\ Res.val.bogus
  /\ Res.val.energy /= derive_energy(Res.val.mass, Res.val.speed, "METRIC")

\* C3 as stated: with fewer than two inputs present, whatever the text of
\* the one present, run fails with the insufficient-inputs error.
C3_AlwaysInsufficient ==
  (HasRun /\ NumPresent(Cfg) < 2) => IsInsufficient(Res)

\* C3 as amended: with fewer than two inputs present run never returns a
\* result; it fails with the insufficient-inputs error when the present
\* input, if any, parses, and with the parse error of that input when it
\* does not.
C3_FewInputsFail ==
  (HasRun /\ NumPresent(Cfg) < 2) =>
    /\ Res.tag = "Err"
    /\ AllParse(Cfg) => IsInsufficient(Res)
    /\ NonNumeric(Cfg.mass) => Res.val = ParseErrMsg(Unwrap(Cfg.mass))
    /\ NonNumeric(Cfg.speed) => Res.val = ParseErrMsg(Unwrap(Cfg.speed))
    /\ NonNumeric(Cfg.energy) => Res.val = ParseErrMsg(Unwrap(Cfg.energy))

\* run was given a speed alone, a number, and refused it.
C3_Witness ==
  /\ HasRun
  /\ Cfg.mass = None
  /\ Cfg.speed = Some(Txt800)
  /\ Cfg.energy = None
  /\ IsInsufficient(Res)

\* C4 as stated: every present field whose text is not a number makes run
\* fail with a parse error whose message contains that field's text.
C4_EveryBadFieldNamed ==
  HasRun =>
    /\ NonNumeric(Cfg.mass) =>
         IsParseError(Res) /\ Contains(Res.val, Unwrap(Cfg.mass))
    /\ NonNumeric(Cfg.speed) =>
         IsParseError(Res) /\ Contains(Res.val, Unwrap(Cfg.speed))
    /\ NonNumeric(Cfg.energy) =>
         IsParseError(Res) /\ Contains(Res.val, Unwrap(Cfg.energy))

\* The first present field, in the order mass, speed, energy, whose text is
\* not a number.
FirstNonNumeric(c) ==
  IF NonNumeric(c.mass) THEN c.mass
  ELSE IF NonNumeric(c.speed) THEN c.speed
  ELSE c.energy

\* C4 as amended: a present field whose text is not a number, whatever the
\* other fields are, makes run fail with a parse error and return no
\* result; the message contains the text of the first such field in the
\* order mass, speed, energy.
C4_FirstBadFieldNamed ==
  (HasRun /\ ~AllParse(Cfg)) =>
    /\ IsParseError(Res)
    /\ Res.val = ParseErrMsg(Unwrap(FirstNonNumeric(Cfg)))
    /\ Contains(Res.val, Unwrap(FirstNonNumeric(Cfg)))

\* Two fields were not numbers and the error names the mass, not the speed.
C4_Witness ==
  /\ HasRun
  /\ Cfg.mass = Some(TxtAbc)
  /\ Cfg.speed = Some(TxtXyz)
  /\ IsParseError(Res)
  /\ Contains(Res.val, TxtAbc)
  /\ ~Contains(Res.val, TxtXyz)

\* C5: a present text that denotes an infinity or NaN makes run fail with a
\* parse error, so that every value run returns from its inputs is finite.
C5_NonFiniteRejected ==
  HasRun =>
    /\ (NonFinite(Cfg.mass) \/ NonFinite(Cfg.speed) \/ NonFinite(Cfg.energy))
         => IsParseError(Res)
    /\ Res.tag = "Ok" =>
         /\ IsSome(Cfg.mass) => IsFinite(Res.val.mass)
         /\ IsSome(Cfg.speed) => IsFinite(Res.val.speed)
         /\ IsSome(Cfg.energy) => IsFinite(Res.val.energy)

\* run has derived exactly one field from two parsed ones.
Derived == HasRun /\ Res.tag = "Ok" /\ ~Res.val.bogus

\* Deriving again from the result of run gives back what was supplied:
\* the speed after an energy was derived, the energy after a speed was
\* derived, and both after a mass was derived.
RoundTrips ==
  LET p == Res.val
      u == p.units
  IN /\ ~IsSome(Cfg.energy) =>
          Close(derive_speed(p.mass, p.energy, u), p.speed)
     /\ ~IsSome(Cfg.speed) =>
          Close(derive_energy(p.mass, p.speed, u), p.energy)
     /\ ~IsSome(Cfg.mass) =>
          /\ Close(derive_speed(p.mass, p.energy, u), p.speed)
          /\ Close(derive_energy(p.mass, p.speed, u), p.energy)

SuppliedFinite ==
  /\ IsSome(Cfg.mass) => IsFinite(Res.val.mass)
  /\ IsSome(Cfg.speed) => IsFinite(Res.val.speed)
  /\ IsSome(Cfg.energy) => IsFinite(Res.val.energy)

\* C6 as stated: for every pair of finite inputs, in both unit systems,
\* deriving the third value and deriving back returns the original value
\* within tolerance.
C6_RoundTripAllPairs == (Derived /\ SuppliedFinite) => RoundTrips

SuppliedPositive ==
  /\ IsSome(Cfg.mass) => Positive(Res.val.mass)
  /\ IsSome(Cfg.speed) => Positive(Res.val.speed)
  /\ IsSome(Cfg.energy) => Positive(Res.val.energy)

\* C6 as amended: the round trip holds, in both unit systems, for every
\* pair of finite, strictly positive inputs (whose derived value neither
\* overflows nor underflows the f64 range).
C6_RoundTripPositive == (Derived /\ SuppliedPositive) => RoundTrips

\* A speed derived in Imperial units that is not a rational number, and
\* from which the supplied energy is derived back.
C6_Witness ==
  /\ Derived
  /\ SuppliedPositive
  /\ Cfg.units = "IMPERIAL"
  /\ Cfg.speed = None
  /\ Res.val.speed.r = 2
  /\ derive_energy(Res.val.mass, Res.val.speed, "IMPERIAL") = Res.val.energy

\* The constants of the reference formulas.
RefG(units) == IF units = "METRIC" THEN Lit(1, 1, 1) ELSE Lit(1, 32174, 1000)

RefDivisor(units) ==
  IF units = "METRIC" THEN Lit(1, 1000, 1) ELSE Lit(1, 7000, 1)

\* The real square root, of a non-negative real.
RefSqrt(x) == IF IsZero(x) THEN Zero(1) ELSE Mag(1, x.n, x.d, 2 * x.r)

\* energy = (mass/divisor * speed^2) / (2g)
RefEnergy(m, sp, units) ==
  FDiv(FMul(FDiv(m, RefDivisor(units)), FMul(sp, sp)),
       FMul(Two, RefG(units)))

\* The radicand (2g * energy) / (mass/divisor) of the speed.
RefSpeedSquared(m, e, units) ==
  FDiv(FMul(FMul(Two, RefG(units)), e), FDiv(m, RefDivisor(units)))

\* mass = ((2g * energy) / speed^2) * divisor
RefMass(sp, e, units) ==
  FMul(FDiv(FMul(FMul(Two, RefG(units)), e), FMul(sp, sp)),
       RefDivisor(units))

\* C7: wherever the reference formulas are defined over the reals (finite
\* operands, a non-zero divisor, a non-negative radicand) the field run
\* derives equals the reference formula with g = 1, divisor 1000 for Metric
\* and g = 32.174, divisor 7000 for Imperial; Metric mass 10 and speed 800
\* give the energy shown as 3200.000.
C7_ReferenceFormulas ==
  Derived =>
    LET p == Res.val
        u == Cfg.units
    IN /\ (~IsSome(Cfg.energy) /\ IsFinite(p.mass) /\ IsFinite(p.speed)) =>
            Close(p.energy, RefEnergy(p.mass, p.speed, u))
       /\ (~IsSome(Cfg.speed) /\ IsFinite(p.mass) /\ IsFinite(p.energy)
             /\ ~IsZero(p.mass)
             /\ (IsZero(p.energy) \/ p.mass.s = p.energy.s)) =>
            Close(p.speed, RefSqrt(RefSpeedSquared(p.mass, p.energy, u)))
       /\ (~IsSome(Cfg.mass) /\ IsFinite(p.speed) /\ IsFinite(p.energy)
             /\ ~IsZero(p.speed)) =>
            Close(p.mass, RefMass(p.speed, p.energy, u))
       /\ (u = "METRIC" /\ Cfg.mass = Some(Txt10) /\ Cfg.speed = Some(Txt800)
             /\ Cfg.energy = None) =>
            Format3(p.energy) = 3200000

\* A mass derived in Imperial units, where g and the divisor both count.
C7_Witness ==
  /\ Derived
  /\ Cfg.units = "IMPERIAL"
  /\ Cfg.mass = None
  /\ Cfg.speed = Some(Txt2700)
  /\ Cfg.energy = Some(Txt3200)
  /\ Positive(Res.val.mass)
  /\ Res.val.mass = RefMass(Res.val.speed, Res.val.energy, "IMPERIAL")

\* run in Imperial units with mass 150, speed 2700 and no energy.
ImperialExample ==
  /\ Derived
  /\ Cfg.units = "IMPERIAL"
  /\ Cfg.mass = Some(Txt150)
  /\ Cfg.speed = Some(Txt2700)
  /\ Cfg.energy = None

\* (150/7000 * 2700^2) / (2 * 32.174)
ImperialExampleEnergy ==
  FDiv(FMul(FDiv(Lit(1, 150, 1), Lit(1, 7000, 1)),
            FMul(Lit(1, 2700, 1), Lit(1, 2700, 1))),
       FMul(Lit(1, 2, 1), Lit(1, 32174, 1000)))

\* C8 as stated: the Imperial example yields (150/7000 * 2700^2)/(2*32.174),
\* which shown with three decimals is 2391.93 followed by one more digit.
C8_ImperialExample2391 ==
  ImperialExample =>
    /\ Res.val.energy = ImperialExampleEnergy
    /\ Format3(Res.val.energy) \div 10 = 239193

\* C8 as amended: the Imperial example yields (150/7000 * 2700^2)/(2*32.174),
\* which shown with three decimals is 2427.648.
C8_ImperialExample2427 ==
  ImperialExample =>
    /\ Res.val.energy = ImperialExampleEnergy
    /\ Format3(Res.val.energy) = 2427648

\* The Imperial example has run and derived an energy.
C8_Witness == ImperialExample /\ Positive(Res.val.energy)

OtherUnits(units) == IF units = "METRIC" THEN "IMPERIAL" ELSE "METRIC"

\* C9: the same three optional texts under the other unit system give the
\* same kind of outcome: the same error message, or Ok with the same bogus
\* flag and the same values in the supplied fields, so that only the
\* derived field (and the units reported) may differ.
C9_UnitsDoNotSelect ==
  HasRun =>
    LET other == run([Cfg EXCEPT !.units = OtherUnits(Cfg.units)])
    IN /\ other.tag = Res.tag
       /\ Res.tag = "Err" => other.val = Res.val
       /\ Res.tag = "Ok" =>
            /\ other.val.bogus = Res.val.bogus
            /\ other.val.units = OtherUnits(Res.val.units)
            /\ IsSome(Cfg.mass) => other.val.mass = Res.val.mass
            /\ IsSome(Cfg.speed) => other.val.speed = Res.val.speed
            /\ IsSome(Cfg.energy) => other.val.energy = Res.val.energy
            /\ Res.val.bogus <=> NumPresent(Cfg) = 3

\* An energy was derived, and the other unit system derives another one
\* from the same two texts.
C9_Witness ==
  /\ Derived
  /\ Cfg.mass = Some(Txt10)
  /\ Cfg.speed = Some(Txt800)
  /\ Cfg.energy = None
  /\ run([Cfg EXCEPT !.units = OtherUnits(Cfg.units)]).val.energy
       /= Res.val.energy

Printed(kind) == \E i \in 1..Len(stdout) : stdout[i].kind = kind

NumSupplied ==
  (IF IsSome(args.m) THEN 1 ELSE 0) + (IF IsSome(args.s) THEN 1 ELSE 0)
    + (IF IsSome(args.e) THEN 1 ELSE 0)

\* C10: the process exits with 0 exactly when help was displayed or run
\* succeeded, and with 1 exactly when the argument parse failed or run
\* returned an error; the block is printed only after run succeeded; the
\* warning is printed only right before the block, and the block has it
\* exactly when all three inputs were supplied.
C10_ExitCodesAndOutput ==
  /\ pc /= "exited" => (exit_code = Running /\ stdout = << >>)
  /\ pc = "exited" =>
       /\ exit_code \in {0, 1}
       /\ exit_code = 0 <=>
            (Printed("usage") \/ (HasRun /\ Res.tag = "Ok"))
       /\ exit_code = 1 <=> (args.bad \/ (HasRun /\ Res.tag = "Err"))
       /\ Printed("params") => (HasRun /\ Res.tag = "Ok")
       /\ (HasRun /\ Res.tag = "Ok") => Printed("params")
       /\ Printed("params") =>
            IF NumSupplied = 3
            THEN Len(stdout) = 2 /\ stdout[1].kind = "warning"
                   /\ stdout[2].kind = "params"
            ELSE Len(stdout) = 1
       /\ ~Printed("params") => ~Printed("warning")

\* The process has exited after printing the warning and the block.
C10_Witness ==
  /\ pc = "exited"
  /\ exit_code = 0
  /\ NumSupplied = 3
  /\ Len(stdout) = 2
  /\ stdout[1].kind = "warning"
  /\ stdout[2].kind = "params"

====
